---- MODULE Spec2Model ----
(***************************************************************************)
(* Multi-agent graph orchestration: the Supervisor (graph.py), the         *)
(* Hierarchical (hierarchical_graph.py) and the Network (network_graph.py) *)
(* topologies.  One run drives a shared state {messages, next} through the *)
(* nodes of the compiled graph; every LLM / agent call is an external      *)
(* capability whose returned text is chosen nondeterministically.          *)
(*                                                                         *)
(* Texts are sequences of atoms.  An atom [k, w, c] is a piece of text:    *)
(* k its kind (word, space, marker, or the two halves of a marker), w its  *)
(* case-folded spelling and c its letter case.  strip / lower / upper /    *)
(* replace / "in" act on the atoms as the Python string methods act on the *)
(* characters.                                                             *)
(***************************************************************************)
EXTENDS Integers, Sequences, FiniteSets, TLC

VARIABLES topology, initial, messages, next, current, visited, decisions, requested

vars == <<topology, initial, messages, next, current, visited, decisions, requested>>

\* Node executions modelled per run (the graphs themselves have no step limit).
MaxSteps == 5
\* Node executions modelled per run of the Network graph.
MaxNetworkSteps == 3
\* Messages the caller puts into the initial state.
MaxInit == 1

----------------------------------------------------------------------------
(* Texts *)

W(s) == [k |-> "word", w |-> s, c |-> "lower"]
U(s) == [k |-> "word", w |-> s, c |-> "upper"]
SP == [k |-> "space", w |-> " ", c |-> "none"]
\* "[ROUTE:x]" as the prompts spell it, and the same text in lower case.
Marker(x) == [k |-> "marker", w |-> x, c |-> "mixed"]
MarkerLower(x) == [k |-> "marker", w |-> x, c |-> "lower"]
\* The two halves of "[ROUTE:x]": MarkerPre(x) followed by MarkerSuf(x) spells it.
MarkerPre(x) == [k |-> "pre", w |-> x, c |-> "mixed"]
MarkerSuf(x) == [k |-> "suf", w |-> x, c |-> "mixed"]

Lower(a) == IF a.c = "none" THEN a ELSE [a EXCEPT !.c = "lower"]
Upper(a) == IF a.c = "none" THEN a ELSE [a EXCEPT !.c = "upper"]

lower(t) == [i \in DOMAIN t |-> Lower(t[i])]
upper(t) == [i \in DOMAIN t |-> Upper(t[i])]

RECURSIVE lstrip(_)
lstrip(t) == IF t # <<>> /\ Head(t) = SP THEN lstrip(Tail(t)) ELSE t

RECURSIVE rstrip(_)
rstrip(t) ==
    IF t # <<>> /\ t[Len(t)] = SP THEN rstrip(SubSeq(t, 1, Len(t) - 1)) ELSE t

strip(t) == rstrip(lstrip(t))

\* keyword in text, for a one-word keyword
HasWord(t, s) == \E i \in DOMAIN t : t[i] = W(s)

\* "[ROUTE:x]" in text
HasMarker(t, x) ==
    \E i \in DOMAIN t :
        \/ t[i] = Marker(x)
        \/ i < Len(t) /\ t[i] = MarkerPre(x) /\ t[i + 1] = MarkerSuf(x)

\* text.replace("[ROUTE:x]", ""): one left-to-right pass over the occurrences
RECURSIVE replace(_, _)
replace(t, x) ==
    IF t = <<>> THEN <<>>
    ELSE IF Head(t) = Marker(x) THEN replace(Tail(t), x)
    ELSE IF Len(t) >= 2 /\ t[1] = MarkerPre(x) /\ t[2] = MarkerSuf(x)
         THEN replace(SubSeq(t, 3, Len(t)), x)
    ELSE <<Head(t)>> \o replace(Tail(t), x)

----------------------------------------------------------------------------
(* State and the engine's merge *)

END == "__end__"
\* the router's value is no key of the conditional edge's mapping: the run fails
BadRoute == "__bad_route__"
\* message.name of a message that carries no name (the user's messages)
NoName == "None"
\* the state has no "next" key yet
NoNext == "unset"
\* a node's result has no "next" key
NoUpdate == "absent"

Msg(name, content) == [name |-> name, content |-> content]

\* a reducer that puts the new messages first
add_messages_prepends(left, right) == right \o left

\* append-only message log of the shared state
add_messages(left, right) == left \o right

\* state.get("next", default)
Get(state, default) == IF state.next = NoNext THEN default ELSE state.next

\* the node's partial result merged into the state
Merged(pr) ==
    [messages |-> add_messages(messages, pr.messages),
     next |-> IF pr.next = NoUpdate THEN next ELSE pr.next]

\* conditional edge: the router's value looked up in the edge's mapping
PathMap(targets, key) == IF key \in targets THEN key ELSE BadRoute

\* sequences of at most n elements of S
SeqUpTo(S, n) == UNION {[1..m -> S] : m \in 0..n}

\* what the action capability of a worker (LLM or tool agent) can return
ActionTexts == {<<W("answer")>>, <<W("answer"), SP, W("search")>>}

----------------------------------------------------------------------------
(* Supervisor topology: graph.py *)

members == {"chat", "coder", "searcher"}
options == members \cup {"FINISH"}

\* two of the thirteen search keywords and two of the twelve code keywords
SearchKeywords == {"search", "news"}
CodeKeywords == {"code", "plot"}

chat(state, response) == [messages |-> <<Msg("chatbot", response)>>, next |-> NoUpdate]
search_node(state, result) == [messages |-> <<Msg("searcher", result)>>, next |-> NoUpdate]

\* code_node returning the agent's reply twice
code_node_twice(state, result) ==
    [messages |-> <<Msg("coder", result), Msg("coder", result)>>, next |-> NoUpdate]
code_node(state, result) == [messages |-> <<Msg("coder", result)>>, next |-> NoUpdate]

\* the keyword rules with the code rule tried before the search rule
KeywordFallback_code_first(user_message) ==
    IF \E keyword \in CodeKeywords : HasWord(lower(user_message), keyword)
    THEN "coder"
    ELSE IF \E keyword \in SearchKeywords : HasWord(lower(user_message), keyword)
    THEN "searcher"
    ELSE "chat"

\* backup keyword matching over the user's message, first matching rule wins
KeywordFallback(user_message) ==
    IF \E keyword \in SearchKeywords : HasWord(lower(user_message), keyword)
    THEN "searcher"
    ELSE IF \E keyword \in CodeKeywords : HasWord(lower(user_message), keyword)
    THEN "coder"
    ELSE "chat"

\* the hub consults db_llm unless the history is empty
SupervisorAsks(msgs) == msgs # <<>>

\* an answer that names neither a worker nor FINISH sent to chat
ReviewChoice_defaults_to_chat(response) ==
    LET next_ == upper(strip(response)) IN
    IF next_ \in {<<U("chat")>>, <<U("coder")>>, <<U("searcher")>>}
    THEN lower(next_)[1].w
    ELSE IF next_ = <<U("finish")>> THEN END
    ELSE "chat"

\* the hub's reading of db_llm's answer after a worker report
ReviewChoice(response) ==
    LET next_ == upper(strip(response)) IN
    IF next_ \in {<<U("chat")>>, <<U("coder")>>, <<U("searcher")>>}
    THEN lower(next_)[1].w
    ELSE IF next_ = <<U("finish")>> THEN END
    ELSE END

\* the hub taking FINISH for an answer on a user message too
RouteChoice_honours_finish(response, user_message) ==
    LET next_ == lower(strip(response)) IN
    IF next_ = <<W("finish")>> THEN END
    ELSE IF next_ \notin {<<W(m)>> : m \in members}
    THEN KeywordFallback(user_message)
    ELSE next_[1].w

\* the hub's reading of db_llm's answer on a user message
RouteChoice(response, user_message) ==
    LET next_ == lower(strip(response)) IN
    IF next_ \notin {<<W(m)>> : m \in members}
    THEN KeywordFallback(user_message)
    ELSE next_[1].w

\* the hub that records its review of a worker's report as a message
supervisor_records_review(state, response) ==
    LET msgs == state.messages IN
    IF msgs = <<>> THEN [messages |-> <<>>, next |-> "chat"]
    ELSE
      LET last_message == msgs[Len(msgs)] IN
      IF last_message.name \in {"chatbot", "searcher", "coder"}
      THEN [messages |-> <<Msg("supervisor", response)>>, next |-> ReviewChoice(response)]
      ELSE [messages |-> <<>>, next |-> RouteChoice(response, last_message.content)]

supervisor(state, response) ==
    LET msgs == state.messages IN
    IF msgs = <<>> THEN [messages |-> <<>>, next |-> "chat"]
    ELSE
      LET last_message == msgs[Len(msgs)] IN
      IF last_message.name \in {"chatbot", "searcher", "coder"}
      THEN [messages |-> <<>>, next |-> ReviewChoice(response)]
      ELSE [messages |-> <<>>, next |-> RouteChoice(response, last_message.content)]

\* the hub's edge still naming the database node the graph no longer registers
SupervisorTargets_with_sqler == members \cup {"sqler", END}

\* keys of the hub's conditional edge
SupervisorTargets == members \cup {END}

\* the graph without the workers' edges back to the hub
SupervisorEdge_worker_ends(node, state) ==
    IF node = "supervisor"
    THEN PathMap(SupervisorTargets, state.next)
    ELSE END

\* the graph whose worker edges lead to chat instead of back to the hub
SupervisorEdge_worker_to_chat(node, state) ==
    IF node = "supervisor"
    THEN PathMap(SupervisorTargets, state.next)
    ELSE "chat"

SupervisorEdge(node, state) ==
    IF node = "supervisor"
    THEN PathMap(SupervisorTargets, state.next)
    ELSE "supervisor"

\* what db_llm can answer the hub
SupervisorTexts ==
    {<<W("coder")>>, <<U("coder")>>, <<SP, W("chat"), SP>>, <<W("searcher")>>,
     <<U("finish")>>, <<W("finish")>>, <<W("coder"), SP, W("chat")>>}

SupervisorInitial ==
    SeqUpTo({Msg(NoName, c) : c \in {<<W("hello")>>, <<W("search")>>, <<U("news")>>,
                                      <<W("plot")>>, <<W("code"), SP, W("search")>>}}
            \cup {Msg(n, <<W("answer")>>) : n \in {"chatbot", "coder", "assistant"}},
            MaxInit)

----------------------------------------------------------------------------
(* Hierarchical topology: hierarchical_graph.py *)

researcher_agent(state, response) ==
    [messages |-> <<Msg("researcher", response)>>, next |-> NoUpdate]
searcher_agent(state, result) ==
    [messages |-> <<Msg("searcher", result)>>, next |-> NoUpdate]
data_collector_agent(state, response) ==
    [messages |-> <<Msg("data_collector", response)>>, next |-> NoUpdate]
analyst_agent(state, response) ==
    [messages |-> <<Msg("analyst", response)>>, next |-> NoUpdate]
calculator_agent(state, result) ==
    [messages |-> <<Msg("calculator", result)>>, next |-> NoUpdate]
visualizer_agent(state, response) ==
    [messages |-> <<Msg("visualizer", response)>>, next |-> NoUpdate]
coder_agent(state, result) ==
    [messages |-> <<Msg("coder", result)>>, next |-> NoUpdate]
tester_agent(state, response) ==
    [messages |-> <<Msg("tester", response)>>, next |-> NoUpdate]
deployer_agent(state, response) ==
    [messages |-> <<Msg("deployer", response)>>, next |-> NoUpdate]

ResearchWorkers == {"researcher", "searcher", "data_collector"}
AnalysisWorkers == {"analyst", "calculator", "visualizer"}
ExecutionWorkers == {"coder", "tester", "deployer"}
HierarchicalWorkers == ResearchWorkers \cup AnalysisWorkers \cup ExecutionWorkers
valid_teams == {"research_team", "analysis_team", "execution_team"}
SupervisorNames == {"research_supervisor", "analysis_supervisor", "execution_supervisor"}

\* an empty history taken for an assignment from the root
TeamAsks_also_when_empty(msgs) ==
    msgs = <<>> \/ msgs[Len(msgs)].name = "top_supervisor"

\* a team supervisor consults hierarchical_llm only for an assignment from the root
TeamAsks(msgs) == msgs # <<>> /\ msgs[Len(msgs)].name = "top_supervisor"

research_team_supervisor(state, response) ==
    IF TeamAsks(state.messages)
    THEN LET choice == lower(strip(response))
             chosen == IF choice \notin {<<W(m)>> : m \in ResearchWorkers}
                       THEN "researcher" ELSE choice[1].w
         IN [messages |-> <<Msg("research_supervisor",
                                <<W("research_team_assigns"), W(chosen)>>)>>,
             next |-> chosen]
    ELSE [messages |-> <<Msg("research_supervisor", <<W("research_team_done")>>)>>,
          next |-> "FINISH"]

analysis_team_supervisor(state, response) ==
    IF TeamAsks(state.messages)
    THEN LET choice == lower(strip(response))
             chosen == IF choice \notin {<<W(m)>> : m \in AnalysisWorkers}
                       THEN "analyst" ELSE choice[1].w
         IN [messages |-> <<Msg("analysis_supervisor",
                                <<W("analysis_team_assigns"), W(chosen)>>)>>,
             next |-> chosen]
    ELSE [messages |-> <<Msg("analysis_supervisor", <<W("analysis_team_done")>>)>>,
          next |-> "FINISH"]

\* the execution team's supervisor reporting without writing next, leaving the
\* FINISH to the router's default
execution_team_supervisor_leaves_next(state, response) ==
    IF TeamAsks(state.messages)
    THEN LET choice == lower(strip(response))
             chosen == IF choice \notin {<<W(m)>> : m \in ExecutionWorkers}
                       THEN "coder" ELSE choice[1].w
         IN [messages |-> <<Msg("execution_supervisor",
                                <<W("execution_team_assigns"), W(chosen)>>)>>,
             next |-> chosen]
    ELSE [messages |-> <<Msg("execution_supervisor", <<W("execution_team_done")>>)>>,
          next |-> NoUpdate]

execution_team_supervisor(state, response) ==
    IF TeamAsks(state.messages)
    THEN LET choice == lower(strip(response))
             chosen == IF choice \notin {<<W(m)>> : m \in ExecutionWorkers}
                       THEN "coder" ELSE choice[1].w
         IN [messages |-> <<Msg("execution_supervisor",
                                <<W("execution_team_assigns"), W(chosen)>>)>>,
             next |-> chosen]
    ELSE [messages |-> <<Msg("execution_supervisor", <<W("execution_team_done")>>)>>,
          next |-> "FINISH"]

\* the root that, finding a team supervisor's report in the history, returns
\* without a new assignment
top_level_supervisor_silent_on_report(state, response) ==
    LET msgs == state.messages
        user_input == IF msgs # <<>> THEN msgs[Len(msgs)].content ELSE <<>>
        choice == lower(strip(response))
        team_choice == IF choice \notin {<<W(t)>> : t \in valid_teams}
                       THEN "research_team" ELSE choice[1].w
    IN IF \E i \in DOMAIN msgs : msgs[i].name \in SupervisorNames
       THEN [messages |-> <<>>, next |-> NoUpdate]
       ELSE [messages |-> <<Msg("top_supervisor",
                                <<W("top_supervisor_request")>> \o user_input
                                    \o <<W("assigned_to"), W(team_choice)>>)>>,
             next |-> team_choice]

\* the root taking the oracle's word without checking it against valid_teams
top_level_supervisor_unchecked(state, response) ==
    LET msgs == state.messages
        user_input == IF msgs # <<>> THEN msgs[Len(msgs)].content ELSE <<>>
        choice == lower(strip(response))
        team_choice == IF choice = <<>> THEN "research_team" ELSE choice[1].w
    IN [messages |-> <<Msg("top_supervisor",
                           <<W("top_supervisor_request")>> \o user_input
                               \o <<W("assigned_to"), W(team_choice)>>)>>,
        next |-> team_choice]

top_level_supervisor(state, response) ==
    LET msgs == state.messages
        user_input == IF msgs # <<>> THEN msgs[Len(msgs)].content ELSE <<>>
        choice == lower(strip(response))
        team_choice == IF choice \notin {<<W(t)>> : t \in valid_teams}
                       THEN "research_team" ELSE choice[1].w
    IN [messages |-> <<Msg("top_supervisor",
                           <<W("top_supervisor_request")>> \o user_input
                               \o <<W("assigned_to"), W(team_choice)>>)>>,
        next |-> team_choice]

team_supervisor_router(state) ==
    LET next_node == Get(state, "FINISH") IN
    IF next_node = "FINISH" THEN "top_supervisor" ELSE next_node

\* the root's router without the look for team reports
top_supervisor_final_router_no_reports(state) == Get(state, "research_team")

top_supervisor_final_router(state) ==
    LET supervisor_reports ==
            {i \in DOMAIN state.messages : state.messages[i].name \in SupervisorNames}
    IN IF supervisor_reports # {} THEN END ELSE Get(state, "research_team")

WorkersOf(team) ==
    CASE team = "research_team" -> ResearchWorkers
      [] team = "analysis_team" -> AnalysisWorkers
      [] team = "execution_team" -> ExecutionWorkers

\* keys of the conditional edges of the root and of the team nodes
HierarchicalTargets(node) ==
    IF node = "top_supervisor" THEN valid_teams \cup {END}
    ELSE WorkersOf(node) \cup {"top_supervisor"}

\* the graph whose tester edge leads to analysis_team, not to its own team
HierarchicalEdge_tester_misreports(node, state) ==
    CASE node = "top_supervisor" ->
            PathMap(HierarchicalTargets(node), top_supervisor_final_router(state))
      [] node \in valid_teams ->
            PathMap(HierarchicalTargets(node), team_supervisor_router(state))
      [] node \in ResearchWorkers -> "research_team"
      [] node \in AnalysisWorkers -> "analysis_team"
      [] node = "tester" -> "analysis_team"
      [] node \in ExecutionWorkers \ {"tester"} -> "execution_team"

HierarchicalEdge(node, state) ==
    CASE node = "top_supervisor" ->
            PathMap(HierarchicalTargets(node), top_supervisor_final_router(state))
      [] node \in valid_teams ->
            PathMap(HierarchicalTargets(node), team_supervisor_router(state))
      [] node \in ResearchWorkers -> "research_team"
      [] node \in AnalysisWorkers -> "analysis_team"
      [] node \in ExecutionWorkers -> "execution_team"

\* what hierarchical_llm can answer the root and the team supervisors
HierarchicalTexts ==
    {<<W("execution_team")>>, <<U("analysis_team")>>, <<W("research_team")>>,
     <<W("tester")>>, <<SP, U("deployer"), SP>>, <<W("searcher")>>,
     <<W("visualizer")>>, <<W("tester"), SP, W("coder")>>}

HierarchicalInitial ==
    SeqUpTo({Msg(NoName, <<W("hello")>>), Msg("top_supervisor", <<W("answer")>>),
             Msg("execution_supervisor", <<W("execution_team_done")>>),
             Msg("tester", <<W("answer")>>)},
            MaxInit)

----------------------------------------------------------------------------
(* Network topology: network_graph.py *)

\* network_chat_node leaving the network_coder marker in the reply
network_chat_node_keeps_marker(state, response_content) ==
    LET routed ==
            IF HasMarker(response_content, "network_searcher")
            THEN [next_agent |-> "network_searcher",
                  content |-> replace(response_content, "network_searcher")]
            ELSE IF HasMarker(response_content, "network_coder")
            THEN [next_agent |-> "network_coder", content |-> response_content]
            ELSE IF HasMarker(response_content, "FINISH")
            THEN [next_agent |-> "FINISH",
                  content |-> replace(response_content, "FINISH")]
            ELSE [next_agent |-> "FINISH", content |-> response_content]
    IN [messages |-> <<Msg("network_chatbot", strip(routed.content))>>,
        next |-> routed.next_agent]

network_chat_node(state, response_content) ==
    LET routed ==
            IF HasMarker(response_content, "network_searcher")
            THEN [next_agent |-> "network_searcher",
                  content |-> replace(response_content, "network_searcher")]
            ELSE IF HasMarker(response_content, "network_coder")
            THEN [next_agent |-> "network_coder",
                  content |-> replace(response_content, "network_coder")]
            ELSE IF HasMarker(response_content, "FINISH")
            THEN [next_agent |-> "FINISH",
                  content |-> replace(response_content, "FINISH")]
            ELSE [next_agent |-> "FINISH", content |-> response_content]
    IN [messages |-> <<Msg("network_chatbot", strip(routed.content))>>,
        next |-> routed.next_agent]

\* network_searcher also honouring a marker that names itself
network_search_node_selects_itself(state, search_result, decision_content) ==
    LET next_agent ==
            IF HasMarker(decision_content, "network_coder") THEN "network_coder"
            ELSE IF HasMarker(decision_content, "network_chat") THEN "network_chat"
            ELSE IF HasMarker(decision_content, "network_searcher") THEN "network_searcher"
            ELSE IF HasMarker(decision_content, "FINISH") THEN "FINISH"
            ELSE "FINISH"
    IN [messages |-> <<Msg("network_searcher", search_result)>>, next |-> next_agent]

network_search_node(state, search_result, decision_content) ==
    LET next_agent ==
            IF HasMarker(decision_content, "network_coder") THEN "network_coder"
            ELSE IF HasMarker(decision_content, "network_chat") THEN "network_chat"
            ELSE IF HasMarker(decision_content, "FINISH") THEN "FINISH"
            ELSE "FINISH"
    IN [messages |-> <<Msg("network_searcher", search_result)>>, next |-> next_agent]

\* network_coder scanning for the chat marker before the searcher marker
network_code_node_chat_first(state, code_result, decision_content) ==
    LET next_agent ==
            IF HasMarker(decision_content, "network_chat") THEN "network_chat"
            ELSE IF HasMarker(decision_content, "network_searcher") THEN "network_searcher"
            ELSE IF HasMarker(decision_content, "FINISH") THEN "FINISH"
            ELSE "FINISH"
    IN [messages |-> <<Msg("network_coder", code_result)>>, next |-> next_agent]

network_code_node(state, code_result, decision_content) ==
    LET next_agent ==
            IF HasMarker(decision_content, "network_searcher") THEN "network_searcher"
            ELSE IF HasMarker(decision_content, "network_chat") THEN "network_chat"
            ELSE IF HasMarker(decision_content, "FINISH") THEN "FINISH"
            ELSE "FINISH"
    IN [messages |-> <<Msg("network_coder", code_result)>>, next |-> next_agent]

\* network_router without the FINISH -> END translation
network_router_keeps_finish(state) == Get(state, "network_chat")

network_router(state) ==
    LET next_node == Get(state, "network_chat") IN
    IF next_node = "FINISH" THEN END ELSE next_node

NetworkNodes == {"network_chat", "network_searcher", "network_coder"}

\* conditional edges that leave out the node's own name
NetworkTargets_without_self(node) == (NetworkNodes \ {node}) \cup {END}

\* keys of the conditional edge of each of the three nodes
NetworkTargets(node) == NetworkNodes \cup {END}

NetworkEdge(node, state) == PathMap(NetworkTargets(node), network_router(state))

\* what network_llm can answer in network_chat: a reply with its routing marker
ChatTexts ==
    {<<W("answer")>>,
     <<W("answer"), SP, Marker("network_coder")>>,
     <<W("answer"), Marker("network_searcher")>>,
     <<W("answer"), Marker("FINISH")>>,
     <<Marker("network_coder"), W("answer"), Marker("network_searcher")>>,
     <<W("answer"), MarkerLower("network_coder")>>,
     <<MarkerPre("network_coder"), Marker("network_coder"), MarkerSuf("network_coder")>>,
     <<W("answer"), Marker("network_chat")>>}

\* what network_llm can answer the routing question of network_searcher / network_coder
DecisionTexts ==
    {<<Marker("network_coder")>>, <<Marker("network_searcher")>>,
     <<Marker("network_chat")>>, <<Marker("FINISH")>>, <<W("done")>>,
     <<Marker("network_chat"), SP, Marker("network_coder")>>,
     <<Marker("FINISH"), Marker("network_chat"), Marker("network_searcher")>>}

NetworkInitial ==
    SeqUpTo({Msg(NoName, <<W("hello")>>), Msg("network_chatbot", <<W("answer")>>)},
            MaxInit)

----------------------------------------------------------------------------
(* The run *)

State == [messages |-> messages, next |-> next]

Entry(t) ==
    CASE t = "supervisor" -> "supervisor"
      [] t = "hierarchical" -> "top_supervisor"
      [] t = "network" -> "network_chat"

EdgeOf(node, state) ==
    CASE topology = "supervisor" -> SupervisorEdge(node, state)
      [] topology = "hierarchical" -> HierarchicalEdge(node, state)
      [] topology = "network" -> NetworkEdge(node, state)

StepLimit(t) == IF t = "network" THEN MaxNetworkSteps ELSE MaxSteps

Running(t, node) ==
    /\ topology = t
    /\ current = node
    /\ Len(visited) < StepLimit(t)

\* the engine's step after node returned pr: merge, then resolve the outgoing edge
Commit(node, pr) ==
    /\ messages' = Merged(pr).messages
    /\ next' = Merged(pr).next
    /\ visited' = Append(visited, node)
    /\ current' = EdgeOf(node, Merged(pr))
    /\ UNCHANGED <<topology, initial, requested>>

Asked(node, text) == decisions' = Append(decisions, [node |-> node, text |-> text])

Step_supervisor ==
    /\ Running("supervisor", "supervisor")
    /\ \/ /\ SupervisorAsks(messages)
          /\ \E response \in SupervisorTexts :
                /\ Commit("supervisor", supervisor(State, response))
                /\ Asked("supervisor", response)
       \/ /\ ~SupervisorAsks(messages)
          /\ Commit("supervisor", supervisor(State, <<>>))
          /\ UNCHANGED decisions

Step_chat ==
    /\ Running("supervisor", "chat")
    /\ \E response \in ActionTexts : Commit("chat", chat(State, response))
    /\ UNCHANGED decisions

Step_searcher ==
    /\ Running("supervisor", "searcher")
    /\ \E result \in ActionTexts : Commit("searcher", search_node(State, result))
    /\ UNCHANGED decisions

Step_coder ==
    /\ Running("supervisor", "coder")
    /\ \E result \in ActionTexts : Commit("coder", code_node(State, result))
    /\ UNCHANGED decisions

Step_top_supervisor ==
    /\ Running("hierarchical", "top_supervisor")
    /\ \E response \in HierarchicalTexts :
          /\ Commit("top_supervisor", top_level_supervisor(State, response))
          /\ Asked("top_supervisor", response)

TeamSupervisor(team, state, response) ==
    CASE team = "research_team" -> research_team_supervisor(state, response)
      [] team = "analysis_team" -> analysis_team_supervisor(state, response)
      [] team = "execution_team" -> execution_team_supervisor(state, response)

Step_team ==
    \E team \in valid_teams :
        /\ Running("hierarchical", team)
        /\ \/ /\ TeamAsks(messages)
              /\ \E response \in HierarchicalTexts :
                    /\ Commit(team, TeamSupervisor(team, State, response))
                    /\ Asked(team, response)
           \/ /\ ~TeamAsks(messages)
              /\ Commit(team, TeamSupervisor(team, State, <<>>))
              /\ UNCHANGED decisions

WorkerAgent(worker, state, response) ==
    CASE worker = "researcher" -> researcher_agent(state, response)
      [] worker = "searcher" -> searcher_agent(state, response)
      [] worker = "data_collector" -> data_collector_agent(state, response)
      [] worker = "analyst" -> analyst_agent(state, response)
      [] worker = "calculator" -> calculator_agent(state, response)
      [] worker = "visualizer" -> visualizer_agent(state, response)
      [] worker = "coder" -> coder_agent(state, response)
      [] worker = "tester" -> tester_agent(state, response)
      [] worker = "deployer" -> deployer_agent(state, response)

Step_worker ==
    \E worker \in HierarchicalWorkers :
        /\ Running("hierarchical", worker)
        /\ \E response \in ActionTexts :
              Commit(worker, WorkerAgent(worker, State, response))
        /\ UNCHANGED decisions

Step_network_chat ==
    /\ Running("network", "network_chat")
    /\ \E response_content \in ChatTexts :
          /\ Commit("network_chat", network_chat_node(State, response_content))
          /\ Asked("network_chat", response_content)

Step_network_searcher ==
    /\ Running("network", "network_searcher")
    /\ \E search_result \in ActionTexts, decision_content \in DecisionTexts :
          /\ Commit("network_searcher",
                    network_search_node(State, search_result, decision_content))
          /\ Asked("network_searcher", decision_content)

Step_network_coder ==
    /\ Running("network", "network_coder")
    /\ \E code_result \in ActionTexts, decision_content \in DecisionTexts :
          /\ Commit("network_coder",
                    network_code_node(State, code_result, decision_content))
          /\ Asked("network_coder", decision_content)

\* the module's graph object invoked directly, not obtained from the selector
Direct == <<[k |-> "none", w |-> "direct", c |-> "none"]>>

InitialOf(t) ==
    CASE t = "supervisor" -> SupervisorInitial
      [] t = "hierarchical" -> HierarchicalInitial
      [] t = "network" -> NetworkInitial

Init ==
    /\ topology \in {"supervisor", "hierarchical", "network"}
    /\ initial \in InitialOf(topology)
    /\ messages = initial
    /\ next = NoNext
    /\ current = Entry(topology)
    /\ visited = <<>>
    /\ decisions = <<>>
    /\ requested = Direct

Next ==
    \/ Step_supervisor
    \/ Step_chat
    \/ Step_searcher
    \/ Step_coder
    \/ Step_top_supervisor
    \/ Step_team
    \/ Step_worker
    \/ Step_network_chat
    \/ Step_network_searcher
    \/ Step_network_coder

Spec == Init /\ [][Next]_vars

\* A team node called on any history: the run starts at a team node.
InitTeam ==
    /\ topology = "hierarchical"
    /\ initial \in HierarchicalInitial
    /\ messages = initial
    /\ next = NoNext
    /\ current \in valid_teams
    /\ visited = <<>>
    /\ decisions = <<>>
    /\ requested = Direct

NextHierarchical ==
    \/ Step_top_supervisor
    \/ Step_team
    \/ Step_worker

SpecTeam == InitTeam /\ [][NextHierarchical]_vars

\* the GraphSelector instance made at import: the two graphs it holds
graph_selector == [supervisor_graph |-> "supervisor", network_graph |-> "network"]

get_supervisor_graph == graph_selector.supervisor_graph

get_network_graph == graph_selector.network_graph

\* get_graph_by_type comparing the argument as given, without lower()
get_graph_by_type_exact(graph_type) ==
    IF graph_type = <<W("network")>> THEN get_network_graph ELSE get_supervisor_graph

get_graph_by_type(graph_type) ==
    IF lower(graph_type) = <<W("network")>> THEN get_network_graph ELSE get_supervisor_graph

\* the strings a caller passes as graph_type ("supervisor" is the default)
GraphTypes ==
    {<<W("supervisor")>>, <<W("network")>>, <<U("network")>>,
     <<[k |-> "word", w |-> "network", c |-> "mixed"]>>, <<SP, W("network")>>,
     <<W("hierarchical")>>, <<W("unknown")>>}

\* the caller obtains the graph from get_graph_by_type and invokes it
InitSelected ==
    /\ requested \in GraphTypes
    /\ topology = get_graph_by_type(requested)
    /\ initial \in InitialOf(topology)
    /\ messages = initial
    /\ next = NoNext
    /\ current = Entry(topology)
    /\ visited = <<>>
    /\ decisions = <<>>

NextSelected ==
    \/ Step_supervisor
    \/ Step_chat
    \/ Step_searcher
    \/ Step_coder
    \/ Step_network_chat
    \/ Step_network_searcher
    \/ Step_network_coder

SpecSelected == InitSelected /\ [][NextSelected]_vars

\* the run ended by an exception that left a node
Failed == "__error__"

\* how many capability calls (LLM or agent invocations) the node makes
CallsOf(node, msgs) ==
    CASE node \in {"network_searcher", "network_coder"} -> 2
      [] node = "supervisor" -> IF SupervisorAsks(msgs) THEN 1 ELSE 0
      [] node \in valid_teams -> IF TeamAsks(msgs) THEN 1 ELSE 0
      [] OTHER -> 1

\* what the node holds in its local variables when its call-th call raises
HeldBefore(node, call) ==
    IF node \in {"network_searcher", "network_coder"} /\ call = 2
    THEN {<<Msg(node, result)>> : result \in ActionTexts}
    ELSE {<<>>}

\* a raising call whose node returns what it held so far
Raised_returns_held(state, held) == [messages |-> held, next |-> NoUpdate]

\* the partial result of a node left by an exception: it never reaches its
\* return statement, so nothing is handed to the engine
Raised(state, held) == [messages |-> <<>>, next |-> NoUpdate]

\* a capability call inside the current node raises: no node catches it, the
\* exception leaves the node and the run
Step_raises ==
    /\ current \notin {END, BadRoute, Failed}
    /\ Len(visited) < StepLimit(topology)
    /\ \E call \in 1..CallsOf(current, messages) :
          \E held \in HeldBefore(current, call) :
              /\ messages' = Merged(Raised(State, held)).messages
              /\ next' = Merged(Raised(State, held)).next
    /\ current' = Failed
    /\ UNCHANGED <<topology, initial, visited, decisions, requested>>

NextRaising ==
    \/ Next
    \/ Step_raises

\* runs in which capability calls may raise
SpecRaising == Init /\ [][NextRaising]_vars

----------------------------------------------------------------------------
(* The graphs as built: registered nodes and edge definitions *)

\* a state for reading an edge that does not look at the state
EmptyState == [messages |-> <<>>, next |-> NoNext]

\* the nodes registered with add_node
Nodes(t) ==
    CASE t = "supervisor" -> {"supervisor"} \cup members
      [] t = "hierarchical" -> {"top_supervisor"} \cup valid_teams \cup HierarchicalWorkers
      [] t = "network" -> NetworkNodes

\* the nodes whose outgoing edge was made by add_conditional_edges
ConditionalNodes(t) ==
    CASE t = "supervisor" -> {"supervisor"}
      [] t = "hierarchical" -> {"top_supervisor"} \cup valid_teams
      [] t = "network" -> NetworkNodes

\* one record per add_edge / add_conditional_edges call that leaves a node:
\* the node it leaves and the targets it declares
EdgeDefs(t) ==
    CASE t = "supervisor" ->
            {[from |-> "supervisor", targets |-> SupervisorTargets]}
            \cup {[from |-> m, targets |-> {SupervisorEdge(m, EmptyState)}] : m \in members}
      [] t = "hierarchical" ->
            {[from |-> n, targets |-> HierarchicalTargets(n)] :
                n \in ConditionalNodes("hierarchical")}
            \cup {[from |-> w, targets |-> {HierarchicalEdge(w, EmptyState)}] :
                    w \in HierarchicalWorkers}
      [] t = "network" ->
            {[from |-> n, targets |-> NetworkTargets(n)] : n \in NetworkNodes}

\* the nodes one declared edge away from a node of S
Successors(t, S) ==
    {n \in Nodes(t) : \E d \in EdgeDefs(t) : d.from \in S /\ n \in d.targets}

RECURSIVE Reach(_, _)
\* the nodes reachable from S along declared edges
Reach(t, S) ==
    IF Successors(t, S) \subseteq S THEN S ELSE Reach(t, S \cup Successors(t, S))

----------------------------------------------------------------------------
(* Properties *)

IsPrefix(s, t) == Len(s) <= Len(t) /\ SubSeq(t, 1, Len(s)) = s

Last(s) == s[Len(s)]

\* the nodes executed so far, followed by the node the engine resolved next
Path == Append(visited, current)

HasConditionalEdge(node) ==
    \/ topology = "supervisor" /\ node = "supervisor"
    \/ topology = "hierarchical" /\ node \in valid_teams \cup {"top_supervisor"}
    \/ topology = "network"

ConditionalTargets(node) ==
    CASE topology = "supervisor" -> SupervisorTargets
      [] topology = "hierarchical" -> HierarchicalTargets(node)
      [] topology = "network" -> NetworkTargets(node)

\* C1: in each topology, whatever text the decision oracle returned, the node
\* resolved after a node with a conditional edge is a key of that edge's
\* mapping, so no run fails on an out-of-set oracle answer.
C1_NextInAllowedTargets ==
    (visited # <<>> /\ HasConditionalEdge(Last(visited)))
        => current \in ConditionalTargets(Last(visited))

\* the root got an answer naming no team and the run went on to the default team
C1_Witness ==
    /\ topology = "hierarchical"
    /\ visited = <<"top_supervisor">>
    /\ Last(decisions).text = <<W("tester"), SP, W("coder")>>
    /\ current = "research_team"

\* C2: when the hub runs on a turn that is no worker report and the oracle's
\* token, trimmed and lower-cased, is none of chat / coder / searcher, the next
\* node follows the keyword rules over the last message: searcher on a search
\* keyword, else coder on a code keyword, else chat; the run does not fail.
C2_KeywordFallback ==
    [][ ( /\ topology = "supervisor"
          /\ current = "supervisor"
          /\ visited' # visited
          /\ messages # <<>>
          /\ Last(messages).name \notin {"chatbot", "searcher", "coder"}
          /\ lower(strip(Last(decisions').text)) \notin {<<W(m)>> : m \in members} )
        => LET content == lower(Last(messages).content)
               search == \E kw \in SearchKeywords : \E i \in DOMAIN content : content[i] = W(kw)
               code == \E kw \in CodeKeywords : \E i \in DOMAIN content : content[i] = W(kw)
           IN /\ search => current' = "searcher"
              /\ (~search /\ code) => current' = "coder"
              /\ (~search /\ ~code) => current' = "chat" ]_vars

\* a user message with a code and a search keyword, an invalid token: searcher
C2_Witness ==
    /\ topology = "supervisor"
    /\ visited = <<"supervisor">>
    /\ initial = <<Msg(NoName, <<W("code"), SP, W("search")>>)>>
    /\ Last(decisions).text = <<W("finish")>>
    /\ current = "searcher"

\* the run of C3 / C4: one user message, the hub's oracle answers "coder" on
\* its first call and "FINISH" on its second
CoderThenFinish ==
    /\ topology = "supervisor"
    /\ Len(initial) = 1
    /\ initial[1].name = NoName
    /\ Len(decisions) >= 1 => decisions[1].text = <<W("coder")>>
    /\ Len(decisions) >= 2 => decisions[2].text = <<U("finish")>>

\* C3: that run visits hub, coder, hub, TERMINAL in exactly this order.
C3_CoderThenFinishPath ==
    CoderThenFinish =>
        /\ IsPrefix(Path, <<"supervisor", "coder", "supervisor", END>>)
        /\ Len(decisions) >= 2 => Path = <<"supervisor", "coder", "supervisor", END>>

C3_Witness ==
    /\ CoderThenFinish
    /\ Len(decisions) = 2
    /\ visited = <<"supervisor", "coder", "supervisor">>
    /\ current = END

\* C4 as stated: the final message sequence of that run has exactly 3 entries.
C4_ThreeMessages ==
    (CoderThenFinish /\ Len(decisions) = 2 /\ current = END) => Len(messages) = 3

\* C4 amended: the final message sequence of that run has exactly 2 entries, in
\* append order: the user's message, then the coder's reply (the hub appends none).
C4_TwoMessages ==
    (CoderThenFinish /\ Len(decisions) = 2 /\ current = END) =>
        /\ Len(messages) = 2
        /\ messages[1] = initial[1]
        /\ messages[2].name = "coder"

C4_Witness ==
    /\ CoderThenFinish
    /\ Len(decisions) = 2
    /\ current = END
    /\ Len(messages) = 2
    /\ messages[2].name = "coder"

\* the run of C5: the root's oracle always answers "execution_team" and a
\* team's oracle always answers "tester"
ExecutionTeamTester ==
    /\ topology = "hierarchical"
    /\ \A i \in DOMAIN decisions :
          /\ decisions[i].node = "top_supervisor"
                => decisions[i].text = <<W("execution_team")>>
          /\ decisions[i].node \in valid_teams => decisions[i].text = <<W("tester")>>

HierarchicalPath ==
    <<"top_supervisor", "execution_team", "tester", "execution_team", "top_supervisor", END>>

\* C5 as stated: every such run visits root, execution_team, tester,
\* execution_team, root, TERMINAL in exactly this order.
C5_AnyHistoryPath ==
    ExecutionTeamTester =>
        /\ IsPrefix(Path, HierarchicalPath)
        /\ Len(visited) = 5 => Path = HierarchicalPath

NoTeamReport(msgs) == \A i \in DOMAIN msgs : msgs[i].name \notin SupervisorNames

\* C5 amended: such a run, started from a message sequence that holds no
\* message authored by a team supervisor, visits root, execution_team, tester,
\* execution_team, root, TERMINAL in exactly this order.
C5_FreshHistoryPath ==
    (ExecutionTeamTester /\ NoTeamReport(initial)) =>
        /\ IsPrefix(Path, HierarchicalPath)
        /\ Len(visited) = 5 => Path = HierarchicalPath

C5_Witness ==
    /\ ExecutionTeamTester
    /\ NoTeamReport(initial)
    /\ Len(decisions) = 3
    /\ Path = HierarchicalPath

\* network_chat has just run on an output that embeds [ROUTE:network_coder]
ChatEmbedsCoderMarker ==
    /\ topology = "network"
    /\ visited # <<>>
    /\ Last(visited) = "network_chat"
    /\ HasMarker(Last(decisions).text, "network_coder")

\* C6 as stated: whenever network_chat's output embeds [ROUTE:network_coder],
\* the appended message has that marker removed and network_coder runs next.
C6_CoderMarkerRoutes ==
    ChatEmbedsCoderMarker =>
        /\ ~HasMarker(Last(messages).content, "network_coder")
        /\ current = "network_coder"

\* cutting a marker out of the text joins no two halves of a marker
NoHalves(t) == \A i \in DOMAIN t : t[i].k \notin {"pre", "suf"}

\* C6 amended: whenever network_chat's output embeds [ROUTE:network_coder] and
\* no [ROUTE:network_searcher], network_coder runs next and the appended
\* message is the output with every occurrence of that marker cut out, then
\* trimmed; it holds no such marker unless the cut joined two halves of one.
C6_CoderMarkerAlone ==
    (ChatEmbedsCoderMarker /\ ~HasMarker(Last(decisions).text, "network_searcher")) =>
        /\ current = "network_coder"
        /\ Last(messages) =
              Msg("network_chatbot", strip(replace(Last(decisions).text, "network_coder")))
        /\ NoHalves(Last(decisions).text)
              => ~HasMarker(Last(messages).content, "network_coder")

C6_Witness ==
    /\ topology = "network"
    /\ visited = <<"network_chat">>
    /\ Last(decisions).text = <<W("answer"), SP, Marker("network_coder")>>
    /\ Last(messages) = Msg("network_chatbot", <<W("answer")>>)
    /\ current = "network_coder"

\* C7: a run with max_steps = 3 whose oracle always picks a non-terminal target
\* stops with StepBudgetExceeded after exactly 3 steps: no fourth node runs.
C7_StepBudget == topology \in {"supervisor", "network"} => Len(visited) <= 3

\* C8: a step never drops, alters or reorders an earlier message: the message
\* sequence before the step is a prefix of the one after it, so the position
\* of a message never changes and new messages take the next higher positions.
C8_AppendOnly == [][IsPrefix(messages, messages')]_vars

\* messages of two different nodes appended behind the caller's message
C8_Witness ==
    /\ Len(initial) = 1
    /\ Len(messages) >= 3
    /\ SubSeq(messages, 1, 1) = initial
    /\ messages[2].name # messages[3].name

\* C9: a team node that runs when the most recent message is top_supervisor's
\* routes to one of its own three workers (its default worker when the oracle
\* names none of them); on any other most recent author, or on an empty
\* history, it routes to the root.
C9_TeamTwoBehaviours ==
    [][ ( /\ topology = "hierarchical"
          /\ current \in valid_teams
          /\ visited' # visited )
        => IF messages # <<>> /\ Last(messages).name = "top_supervisor"
           THEN LET token == lower(strip(Last(decisions').text)) IN
                /\ current' \in WorkersOf(current)
                /\ token \notin {<<W(m)>> : m \in WorkersOf(current)}
                      => current' = CASE current = "research_team" -> "researcher"
                                      [] current = "analysis_team" -> "analyst"
                                      [] current = "execution_team" -> "coder"
           ELSE current' = "top_supervisor" ]_vars

\* research_team, called on an empty history, has reported to the root
C9_Witness ==
    /\ topology = "hierarchical"
    /\ initial = <<>>
    /\ visited = <<"research_team">>
    /\ decisions = <<>>
    /\ current = "top_supervisor"

\* C10: when the hub runs and the most recent message is a worker report, the
\* next node is the worker the oracle names, TERMINAL when it says FINISH, and
\* TERMINAL for every other answer.
C10_ReviewDefaultsToEnd ==
    [][ ( /\ topology = "supervisor"
          /\ current = "supervisor"
          /\ visited' # visited
          /\ messages # <<>>
          /\ Last(messages).name \in {"chatbot", "searcher", "coder"} )
        => LET token == upper(strip(Last(decisions').text)) IN
           IF \E m \in members : token = <<U(m)>>
           THEN token = <<U(current')>>
           ELSE current' = END ]_vars

\* after the coder's report the oracle named no worker and the run ended
C10_Witness ==
    /\ topology = "supervisor"
    /\ Len(visited) = 3
    /\ visited[2] = "coder"
    /\ Last(visited) = "supervisor"
    /\ Last(decisions).text = <<W("coder"), SP, W("chat")>>
    /\ current = END

\* the names a routing marker can carry
MarkerNames == NetworkNodes \cup {"FINISH"}

\* the text holds "[ROUTE:x]" for some x
HasAnyMarker(t) == \E x \in MarkerNames : HasMarker(t, x)

\* C11: in the Network topology no message appended to the state holds a
\* routing marker [ROUTE:x]: the marker is stripped before the message is stored.
C11_NoMarkerStored ==
    topology = "network" =>
        \A i \in DOMAIN messages : i > Len(initial) => ~HasAnyMarker(messages[i].content)

\* the letter-case-blind names of the markers a text holds
MarkersIn(t) == {t[i].w : i \in {j \in DOMAIN t : t[j].k = "marker"}}

\* C12: in every topology the oracle's output is trimmed and case-folded before
\* it is matched: an output that differs from a target's name (or from its
\* routing marker) only by letter case or surrounding whitespace selects that
\* target and not the fallback.
C12_NormalizedBeforeMatch ==
    [][ (visited' # visited /\ decisions' # decisions) =>
        LET text == Last(decisions').text
            token == lower(strip(text))
        IN /\ topology = "supervisor" =>
                 \A m \in members : token = <<W(m)>> => current' = m
           /\ (topology = "hierarchical" /\ current = "top_supervisor") =>
                 \A t \in valid_teams : token = <<W(t)>> => next' = t
           /\ (topology = "hierarchical" /\ current \in valid_teams) =>
                 \A w \in WorkersOf(current) : token = <<W(w)>> => current' = w
           /\ (topology = "network" /\ current = "network_chat") =>
                 \A x \in {"network_searcher", "network_coder"} :
                     MarkersIn(text) = {x} => current' = x ]_vars

\* C13: when a capability call inside a node raises, the run stops at that
\* step: the message sequence (and next) stay what they were before the node
\* started, also when the node had already obtained its action result, and no
\* node executes afterwards.
C13_RaiseCommitsNothing ==
    [][ /\ current # Failed
        /\ current' = Failed =>
               /\ messages' = messages
               /\ next' = next
               /\ visited' = visited ]_vars

\* network_searcher was entered through network_chat's marker and the run failed in it
C13_Witness ==
    /\ current = Failed
    /\ topology = "network"
    /\ visited = <<"network_chat">>
    /\ next = "network_searcher"
    /\ Len(messages) = Len(initial) + 1

\* the graph's edges name registered nodes or END only, every registered node
\* is reachable from the entry node, no node has two outgoing edge definitions
WellFormed(t) ==
    /\ \A d \in EdgeDefs(t) :
          /\ d.from \in Nodes(t)
          /\ d.targets \subseteq Nodes(t) \cup {END}
    /\ Entry(t) \in Nodes(t)
    /\ Reach(t, {Entry(t)}) = Nodes(t)
    /\ \A n \in Nodes(t) : Cardinality({d \in EdgeDefs(t) : d.from = n}) <= 1

WellFormedGraphs == {t \in {"supervisor", "hierarchical", "network"} : WellFormed(t)}

\* C14: in each of the three graphs every unconditional edge target and every
\* allowed target of a conditional edge is a registered node or END, every
\* registered node is reachable from the entry node, and no node has more than
\* one outgoing edge definition; the run is at one registered node (or at END)
\* and got there along a declared edge.
C14_GraphWellFormed ==
    /\ topology \in WellFormedGraphs
    /\ current \in Nodes(topology) \cup {END}
    /\ visited # <<>> =>
          \E d \in EdgeDefs(topology) : d.from = Last(visited) /\ current \in d.targets

\* a Hierarchical run that went root, team, worker, team, root and ended
C14_Witness ==
    /\ topology = "hierarchical"
    /\ Len(visited) = 5
    /\ visited[3] \in HierarchicalWorkers
    /\ current = END

\* C15: in the Supervisor topology every worker execution is followed at once
\* by a hub execution, and only the hub is followed by END or by a worker.
C15_WorkersReturnToHub ==
    [][ topology = "supervisor" =>
          /\ current \in members => current' = "supervisor"
          /\ current' \in members \cup {END} => current = "supervisor" ]_vars

\* the hub ran, then the searcher, then the hub again
C15_Witness ==
    /\ topology = "supervisor"
    /\ visited = <<"supervisor", "searcher", "supervisor">>

\* the root has executed once and nothing else has
RootRanOnce == topology = "hierarchical" /\ visited = <<"top_supervisor">>

\* C16 as stated: after the root's first execution the next node is one of the
\* three team nodes, for every initial message sequence and oracle output.
C16_RootAlwaysDelegates == RootRanOnce => current \in valid_teams

\* C16 amended: after the root's first execution in a run whose initial
\* message sequence holds no team supervisor's message, the next node is the
\* team the oracle named (trimmed, case-folded) and research_team for any other
\* output; with such a message in the initial sequence the next node is END.
C16_FreshRootDelegates ==
    RootRanOnce =>
        LET token == lower(strip(decisions[1].text)) IN
        IF NoTeamReport(initial)
        THEN /\ current \in valid_teams
             /\ \A t \in valid_teams : token = <<W(t)>> => current = t
             /\ token \notin {<<W(t)>> : t \in valid_teams} => current = "research_team"
        ELSE current = END

\* the oracle named a worker, not a team: the root fell back to research_team
C16_Witness ==
    /\ RootRanOnce
    /\ NoTeamReport(initial)
    /\ decisions[1].text = <<W("tester")>>
    /\ current = "research_team"

\* C17: in the Network topology the conditional edge of each of network_chat,
\* network_searcher and network_coder has all three nodes (itself included) and
\* END as its allowed targets: whichever of them the node's next names, the
\* edge resolves to it, and FINISH resolves to END.
C17_FullMesh ==
    topology = "network" =>
        \A n \in NetworkNodes :
            /\ NetworkTargets(n) = {"network_chat", "network_searcher", "network_coder", END}
            /\ \A k \in NetworkNodes : NetworkEdge(n, [State EXCEPT !.next = k]) = k
            /\ NetworkEdge(n, [State EXCEPT !.next = "FINISH"]) = END

\* network_searcher routed back to network_chat, the chat node to the searcher before
C17_Witness ==
    /\ topology = "network"
    /\ visited = <<"network_chat", "network_searcher">>
    /\ current = "network_chat"

\* the order in which the claim says each Network node looks for markers
Priority(node) ==
    CASE node = "network_chat" -> <<"network_searcher", "network_coder", "FINISH">>
      [] node = "network_searcher" -> <<"network_coder", "network_chat", "FINISH">>
      [] node = "network_coder" -> <<"network_searcher", "network_chat", "FINISH">>

\* the first name of order whose marker the text holds, FINISH if it holds none
FirstMarker(text, order) ==
    LET present == {i \in DOMAIN order : HasMarker(text, order[i])} IN
    IF present = {} THEN "FINISH"
    ELSE order[CHOOSE i \in present : \A j \in present : i <= j]

\* C18: each Network node scans its oracle's output for markers in its fixed
\* priority order and the first marker present decides, also when the output
\* holds several; an output with no recognised marker routes to END, which is
\* one of the node's allowed targets.
C18_MarkerPriority ==
    (topology = "network" /\ visited # <<>>) =>
        LET node == Last(visited)
            text == Last(decisions).text
            first == FirstMarker(text, Priority(node))
        IN /\ next = first
           /\ current = IF first = "FINISH" THEN END ELSE first
           /\ current \in NetworkTargets(node)

\* network_coder's oracle returned FINISH, chat and searcher markers together:
\* the searcher marker decided
C18_Witness ==
    /\ topology = "network"
    /\ visited # <<>>
    /\ Last(visited) = "network_coder"
    /\ HasMarker(Last(decisions).text, "network_chat")
    /\ HasMarker(Last(decisions).text, "network_searcher")
    /\ HasMarker(Last(decisions).text, "FINISH")
    /\ current = "network_searcher"

\* C19: get_graph_by_type returns the Network graph exactly when its argument
\* lower-cases to "network" and the Supervisor graph for every other string
\* (the default "supervisor", "hierarchical", unknown names): it fails on no
\* string and never returns the Hierarchical graph.
C19_SelectorTwoGraphs ==
    /\ topology = "network" <=> lower(requested) = <<W("network")>>
    /\ topology = "supervisor" <=> lower(requested) # <<W("network")>>
    /\ topology # "hierarchical"
    /\ current \in Nodes(topology) \cup {END}

\* "hierarchical" was asked for and the Supervisor graph ran
C19_Witness ==
    /\ requested = <<W("hierarchical")>>
    /\ topology = "supervisor"
    /\ visited # <<>>
    /\ Head(visited) = "supervisor"

\* C20: a Hierarchical run started from a message sequence that holds no team
\* supervisor's message ends after exactly five node executions whatever the
\* oracles return: root, one team, one worker of that team, the same team,
\* root, END.  One worker executes and no second team does; until END is
\* reached a next step is always possible.
C20_FiveExecutions ==
    (topology = "hierarchical" /\ NoTeamReport(initial)) =>
        /\ Len(visited) <= 5
        /\ Path[1] = "top_supervisor"
        /\ Len(Path) >= 2 => Path[2] \in valid_teams
        /\ Len(Path) >= 3 => Path[3] \in WorkersOf(Path[2])
        /\ Len(Path) >= 4 => Path[4] = Path[2]
        /\ Len(Path) >= 5 => Path[5] = "top_supervisor"
        /\ Len(Path) >= 6 => Path[6] = END
        /\ current = END => Len(visited) = 5
        /\ current # END => ENABLED Next

\* the run ended after its fifth execution, having gone through analysis_team
\* and its visualizer
C20_Witness ==
    /\ topology = "hierarchical"
    /\ NoTeamReport(initial)
    /\ visited = <<"top_supervisor", "analysis_team", "visualizer",
                   "analysis_team", "top_supervisor">>
    /\ current = END

\* how many elements of the sequence satisfy: equal to x
Count(seq, x) == Cardinality({i \in DOMAIN seq : seq[i] = x})

\* a Hierarchical run that ended after a team node reported in it
EndedAfterTeamReport ==
    /\ topology = "hierarchical"
    /\ current = END
    /\ \E i \in DOMAIN visited : visited[i] \in valid_teams

WorkerExecutions(v) == Cardinality({i \in DOMAIN v : v[i] \in members})

\* C22: an execution of the Supervisor hub leaves the message sequence as it
\* was and only writes next; every worker execution appends exactly one
\* message, so the number of messages is the initial number plus the number of
\* worker executions, at the end of the run as after every step.
C22_HubLeavesMessages ==
    [][ topology = "supervisor" =>
          /\ current = "supervisor" =>
                /\ messages' = messages
                /\ next' \in SupervisorTargets
          /\ current \in members =>
                /\ Len(messages') = Len(messages) + 1
                /\ SubSeq(messages', 1, Len(messages)) = messages
                /\ next' = next
          /\ Len(messages') = Len(initial) + WorkerExecutions(visited') ]_vars

\* a Supervisor run that ended after the searcher and the coder had run
C22_Witness ==
    /\ topology = "supervisor"
    /\ visited = <<"supervisor", "searcher", "supervisor", "coder", "supervisor">>
    /\ current = END
    /\ Len(messages) = Len(initial) + 2

\* the history ends with a worker's report
WorkerReport(msgs) ==
    msgs # <<>> /\ Last(msgs).name \in {"chatbot", "searcher", "coder"}

\* the hub, executed on a history that is empty or does not end with a worker's
\* report, is followed by a worker; on an empty history by chat, unasked
HubDelegates ==
    (topology = "supervisor" /\ current = "supervisor" /\ ~WorkerReport(messages)) =>
        /\ current' \in members
        /\ messages = <<>> => (current' = "chat" /\ decisions' = decisions)

\* C23 as stated: the hub delegates as above, and every Supervisor run has
\* executed at least one worker when it terminates.
C23_EveryRunDelegates ==
    [][ /\ HubDelegates
        /\ (topology = "supervisor" /\ current' = END) =>
               WorkerExecutions(visited') >= 1 ]_vars

\* C23 amended: the hub delegates as above; a Supervisor run whose initial
\* history is empty or does not end with a worker's report has executed at
\* least one worker when it terminates.
C23_FreshRunDelegates ==
    [][ /\ HubDelegates
        /\ (topology = "supervisor" /\ current' = END /\ ~WorkerReport(initial)) =>
               WorkerExecutions(visited') >= 1 ]_vars

\* the hub was asked on a user's message, answered FINISH, and chat ran
C23_Witness ==
    /\ topology = "supervisor"
    /\ initial # <<>>
    /\ ~WorkerReport(initial)
    /\ Len(visited) >= 2
    /\ visited[2] \in members
    /\ lower(strip(decisions[1].text)) = <<W("finish")>>

\* C24: in the Network topology no node executes twice in a row: whatever its
\* oracle returns, a node never selects itself, although its own name is a key
\* of its conditional edge.
C24_NoSelfSelection ==
    topology = "network" =>
        /\ \A i \in 1..(Len(Path) - 1) : Path[i] # Path[i + 1]
        /\ visited # <<>> =>
              /\ next # Last(visited)
              /\ Last(visited) \in NetworkTargets(Last(visited))

\* network_searcher's oracle returned the searcher's own marker: the run ended
C24_Witness ==
    /\ topology = "network"
    /\ visited = <<"network_chat", "network_searcher">>
    /\ HasMarker(Last(decisions).text, "network_searcher")
    /\ current = END

\* the partial results the node can return in the present state, one for each
\* output of its capabilities
ResultsOf(node) ==
    CASE topology = "supervisor" /\ node = "supervisor" ->
            IF SupervisorAsks(messages)
            THEN {supervisor(State, r) : r \in SupervisorTexts}
            ELSE {supervisor(State, <<>>)}
      [] topology = "hierarchical" /\ node = "top_supervisor" ->
            {top_level_supervisor(State, r) : r \in HierarchicalTexts}
      [] topology = "hierarchical" /\ node \in valid_teams ->
            IF TeamAsks(messages)
            THEN {TeamSupervisor(node, State, r) : r \in HierarchicalTexts}
            ELSE {TeamSupervisor(node, State, <<>>)}
      [] topology = "network" /\ node = "network_chat" ->
            {network_chat_node(State, r) : r \in ChatTexts}
      [] topology = "network" /\ node = "network_searcher" ->
            {network_search_node(State, a, d) : a \in ActionTexts, d \in DecisionTexts}
      [] topology = "network" /\ node = "network_coder" ->
            {network_code_node(State, a, d) : a \in ActionTexts, d \in DecisionTexts}

\* the partial results a worker can return in the present state
WorkerResultsOf(node) ==
    CASE topology = "supervisor" /\ node = "chat" -> {chat(State, r) : r \in ActionTexts}
      [] topology = "supervisor" /\ node = "searcher" ->
            {search_node(State, r) : r \in ActionTexts}
      [] topology = "supervisor" /\ node = "coder" ->
            {code_node(State, r) : r \in ActionTexts}
      [] topology = "hierarchical" /\ node \in HierarchicalWorkers ->
            {WorkerAgent(node, State, r) : r \in ActionTexts}
      [] OTHER -> {}

\* values an earlier node can have left in next
StaleNexts == Nodes(topology) \cup {NoNext, "FINISH", END}

\* the node's partial result merged into the state whose next is stale
MergedOnto(stale, pr) ==
    [messages |-> add_messages(messages, pr.messages),
     next |-> IF pr.next = NoUpdate THEN stale ELSE pr.next]

\* C25: in every topology a node with a conditional edge writes next in each
\* of its executions, and the edge resolves on that value: whatever an earlier
\* node left in next, the node that follows is the same.  A worker never writes
\* next.
C25_RoutesOnOwnNext ==
    /\ (current \in ConditionalNodes(topology) /\ Len(visited) < StepLimit(topology)) =>
          \A pr \in ResultsOf(current) :
              /\ pr.next # NoUpdate
              /\ Merged(pr).next = pr.next
              /\ \A stale \in StaleNexts :
                    EdgeOf(current, MergedOnto(stale, pr)) = EdgeOf(current, Merged(pr))
    /\ \A pr \in WorkerResultsOf(current) : pr.next = NoUpdate

\* the execution team is about to run again, on its tester's report, while
\* next still holds the tester assignment of its first execution
C25_Witness ==
    /\ topology = "hierarchical"
    /\ visited = <<"top_supervisor", "execution_team", "tester">>
    /\ current = "execution_team"
    /\ next = "tester"

====
